---- MODULE Spec2Model ----
(***************************************************************************)
(* A model of libavformat/tcp.c (ijkplayer's FFmpeg): tcp_open with its    *)
(* candidate loop, the process-wide DNS cache (get_dns_cache,              *)
(* set_dns_cache) and the background resolver                              *)
(* (ijk_tcp_getaddrinfo_nonblock and its two worker threads).              *)
(*                                                                         *)
(* Every thread of Threads runs tcp_open calls one after another.  Memory  *)
(* is a heap of objects addressed by pointers 1, 2, ... (0 is NULL); a     *)
(* pointer is never reused, so a stale pointer stays visible.  Time is the *)
(* value av_gettime() returns, in microseconds.                            *)
(***************************************************************************)
EXTENDS Integers, Sequences, FiniteSets, TLC

VARIABLES
    now,                    \* av_gettime(), microseconds
    dns_dictionary,         \* the AVDictionary: a sequence of [key, value] entries
    dns_dictionary_mutex,   \* 0 when free, else the thread holding it
    heap,                   \* allocated objects; a pointer is an index
    tcp,                    \* per thread: the locals of its tcp_open call
    rq,                     \* per thread: the TCPAddrinfoRequest of its call, waiter and worker
    calls                   \* tcp_open calls started so far

vars == <<now, dns_dictionary, dns_dictionary_mutex, heap, tcp, rq, calls>>

Threads == {1, 2}

\* ---- bounds of the model
MaxCalls == 3
MaxCand == 3
MaxTicks == 6
MaxResolveCalls == 1
MaxFamilyCand == 2
MaxCacheCalls == 3
MaxCacheCand == 1

\* ---- program constants
AVERROR_EXIT == -1414092869
AVERROR_EIO == -5
AVERROR_EINVAL == -22
AVERROR_ENOMEM == -12
AVERROR_ECONNREFUSED == -61
AVERROR_EMFILE == -24
AVERROR_EAGAIN == -35
AVERROR_EADDRINUSE == -48
EAI_FAIL == 4
EAI_NONAME == 8
SockaddrSize == 16
WaitSlice == 100000
TtlScale == 1000
DefaultOpenTimeout == 15000000

\* ---- addresses ----------------------------------------------------------
\* struct sockaddr_in / sockaddr_in6 as the bytes in memory (BSD layout:
\* length, family, port in network order, then the address).
htons(port) == <<port \div 256, port % 256>>

sockaddr_in(host, port) ==
    <<16, 2>> \o htons(port) \o <<10, 0, 0, host>> \o <<0, 0, 0, 0, 0, 0, 0, 0>>

sockaddr_in6(host, port) ==
    <<28, 30>> \o htons(port) \o <<0, 0, 0, 0>>
    \o <<32, 1, 13, 184, 0, 0, 0, 0, 0, 0, 0, 0, 0, 0, 0, host>> \o <<0, 0, 0, 7>>

\* struct addrinfo; ai_next is the position in the list, ai_addr the bytes of
\* the storage ai_addr points to (<<>> for NULL).
AddrInfo(family, addr) ==
    [ai_family |-> family, ai_socktype |-> "SOCK_STREAM", ai_protocol |-> "IPPROTO_TCP",
     ai_addrlen |-> IF family = "AF_INET6" THEN 28 ELSE 16, ai_addr |-> addr,
     ai_canonname |-> 0]

\* ---- the dictionary (libavutil/dict.c) ------------------------------------
RECURSIVE DecStr(_)
\* "%lld" of a non-negative value: its decimal digits
DecStr(n) == IF n < 10 THEN <<n>> ELSE Append(DecStr(n \div 10), n % 10)

RECURSIVE strtoll(_)
\* strtoll(s, NULL, 10) of a string of digits
strtoll(s) == IF s = <<>> THEN 0 ELSE 10 * strtoll(SubSeq(s, 1, Len(s) - 1)) + s[Len(s)]

\* av_dict_get(m, key, NULL, AV_DICT_MATCH_CASE): the first entry with that key, 0 if none
av_dict_get(m, key) ==
    IF \E i \in 1..Len(m) : m[i].key = key
    THEN CHOOSE i \in 1..Len(m) : m[i].key = key /\ \A j \in 1..(i - 1) : m[j].key # key
    ELSE 0

\* av_dict_set(&m, key, value, 0): an existing entry is replaced by the last
\* entry of the array, then the new entry is put at the end
av_dict_set(m, key, value) ==
    LET i == av_dict_get(m, key)
        n == Len(m)
        removed == IF i = 0 THEN m
                   ELSE SubSeq([m EXCEPT ![i] = m[n]], 1, n - 1)
    IN Append(removed, [key |-> key, value |-> value])

av_dict_set_int(m, key, value) == av_dict_set(m, key, DecStr(value))

\* ---- the heap -----------------------------------------------------------
\* An object: a DnsCacheInfo (dns_cache_time, res), an addrinfo made by
\* set_dns_cache/get_dns_cache ("private": one addrinfo and its sockaddr) or
\* a list returned by getaddrinfo ("list").  frees counts the times it was
\* released; src remembers, for a DnsCacheInfo, the addrinfo given to
\* set_dns_cache, and for a list linked behind another ("tail") the head of
\* that list.
Object(kind, time, res, ais, src) ==
    [kind |-> kind, frees |-> 0, dns_cache_time |-> time, res |-> res, ais |-> ais, src |-> src]

NoAddr == <<>>

Live(hp, p) == p \in 1..Len(hp) /\ hp[p].frees = 0

\* av_freep / freeaddrinfo of the object p points to (nothing for NULL)
Free(hp, p) ==
    IF p \in 1..Len(hp)
    THEN [hp EXCEPT ![p].frees = @ + 1, ![p].ais = <<>>, ![p].src = 0]
    ELSE hp

\* free_private_addrinfo(&ai): the sockaddr and the addrinfo, when ai is not NULL
free_private_addrinfo(hp, p) == Free(hp, p)

\* The bytes memcpy(dst, src, sizeof(struct sockaddr)) leaves in a fresh
\* sizeof(struct sockaddr) allocation.
CopySockaddr(addr) == SubSeq(addr, 1, SockaddrSize)

\* The private addrinfo both cache functions build: memcpy of the struct,
\* then a sizeof(struct sockaddr) copy of the address, no canonname, no next.
CopyAddrinfo(a) == [a EXCEPT !.ai_addr = CopySockaddr(a.ai_addr), !.ai_canonname = 0]

\* ---- get_dns_cache, between lock and unlock ---------------------------------
\* The result: the dictionary and heap it leaves, its return value (1 on a
\* hit) and *p_ai.
DnsMiss(m, hp) == [dict |-> m, heap |-> hp, ret |-> 0, ai |-> 0]

DnsExpired(s, dns_cache_time, cur_time) ==
    ~(s.dns_cache_timeout < 0 \/ dns_cache_time + s.dns_cache_timeout * TtlScale > cur_time)

\* A lookup that honours dns_cache_clear only for an entry it would not return
get_dns_cache_clear_late(m, hp, hostname, s, cur_time) ==
    LET elem == av_dict_get(m, hostname)
        dns_cache_info == IF elem = 0 THEN 0 ELSE strtoll(m[elem].value)
    IN  IF elem = 0 \/ dns_cache_info = 0 THEN DnsMiss(m, hp)
        ELSE LET info == hp[dns_cache_info]
                 cleared == av_dict_set_int(m, hostname, 0)
             IN  IF ~DnsExpired(s, info.dns_cache_time, cur_time)
                 THEN [dict |-> m,
                       heap |-> Append(hp, Object("private", 0, 0,
                                                  <<CopyAddrinfo(hp[info.res].ais[1])>>, 0)),
                       ret |-> 1, ai |-> Len(hp) + 1]
                 ELSE DnsMiss(cleared, Free(free_private_addrinfo(hp, info.res), dns_cache_info))

\* A lookup that hands out the cache's own record instead of a copy
get_dns_cache_alias(m, hp, hostname, s, cur_time) ==
    LET elem == av_dict_get(m, hostname)
        dns_cache_info == IF elem = 0 THEN 0 ELSE strtoll(m[elem].value)
    IN  IF elem = 0 \/ dns_cache_info = 0 \/ s.dns_cache_clear # 0 THEN DnsMiss(m, hp)
        ELSE IF DnsExpired(s, hp[dns_cache_info].dns_cache_time, cur_time) THEN DnsMiss(m, hp)
        ELSE [dict |-> m, heap |-> hp, ret |-> 1, ai |-> hp[dns_cache_info].res]

get_dns_cache(m, hp, hostname, s, cur_time) ==
    LET elem == av_dict_get(m, hostname)
        dns_cache_info == IF elem = 0 THEN 0 ELSE strtoll(m[elem].value)
    IN  IF elem = 0 \/ dns_cache_info = 0 THEN DnsMiss(m, hp)
        ELSE LET info == hp[dns_cache_info]
                 cleared == av_dict_set_int(m, hostname, 0)
             IN  IF s.dns_cache_clear # 0
                 THEN DnsMiss(cleared, Free(free_private_addrinfo(hp, info.res), dns_cache_info))
                 ELSE IF ~DnsExpired(s, info.dns_cache_time, cur_time)
                 THEN IF info.res # 0 /\ hp[info.res].ais # <<>> /\ hp[info.res].ais[1].ai_addr # NoAddr
                      THEN [dict |-> m,
                            heap |-> Append(hp, Object("private", 0, 0,
                                                       <<CopyAddrinfo(hp[info.res].ais[1])>>, 0)),
                            ret |-> 1, ai |-> Len(hp) + 1]
                      ELSE DnsMiss(cleared, Free(hp, dns_cache_info))
                 ELSE DnsMiss(cleared, Free(free_private_addrinfo(hp, info.res), dns_cache_info))

\* ---- set_dns_cache ----------------------------------------------------------
\* Lines 417-450: the new DnsCacheInfo and its private addrinfo, built before
\* the mutex is taken.  The result is the heap; the new DnsCacheInfo is its
\* last object.
new_dns_cache_info(hp, cur, cur_time) ==
    LET withRes == Append(hp, Object("private", 0, 0, <<CopyAddrinfo(cur)>>, 0))
    IN  Append(withRes, Object("DnsCacheInfo", cur_time, Len(withRes), <<>>, cur))

\* A store that adds its entry next to the one already there
set_dns_cache_multikey(m, hostname, info) ==
    Append(m, [key |-> hostname, value |-> DecStr(info)])

\* Line 452, under the mutex
set_dns_cache(m, hostname, info) == av_dict_set_int(m, hostname, info)

\* A failure path that frees the record and leaves its pointer in the dictionary
dns_cache_invalidate_dangling(m, hp, hostname_bak) ==
    LET elem == av_dict_get(m, hostname_bak)
        dns_cache_info == IF elem = 0 THEN 0 ELSE strtoll(m[elem].value)
    IN  IF elem # 0 /\ dns_cache_info # 0
        THEN [dict |-> m,
              heap |-> Free(free_private_addrinfo(hp, hp[dns_cache_info].res), dns_cache_info)]
        ELSE [dict |-> m, heap |-> hp]

\* A failure path that leaves the entry in place
dns_cache_keep(m, hp, hostname_bak) == [dict |-> m, heap |-> hp]

\* ---- tcp_open, lines 643-652: a failed cache hit drops the entry ------------
dns_cache_invalidate(m, hp, hostname_bak) ==
    LET elem == av_dict_get(m, hostname_bak)
        dns_cache_info == IF elem = 0 THEN 0 ELSE strtoll(m[elem].value)
    IN  IF elem # 0 /\ dns_cache_info # 0
        THEN [dict |-> av_dict_set_int(m, hostname_bak, 0),
              heap |-> Free(free_private_addrinfo(hp, hp[dns_cache_info].res), dns_cache_info)]
        ELSE [dict |-> m, heap |-> hp]

\* ---- what the platform may answer ---------------------------------------
\* The candidates getaddrinfo may return for a port: an IPv4 address, and an
\* IPv6 address whose port it left 0 (the iOS 9 case of line 555).
A4(port) == AddrInfo("AF_INET", sockaddr_in(1, port))
A6(port) == AddrInfo("AF_INET6", sockaddr_in6(1, 0))

Pool(family, port) ==
    CASE family = "AF_INET" -> {A4(port)}
      [] family = "AF_INET6" -> {A6(port)}
      [] OTHER -> {A4(port), A6(port)}

ListsOver(S, n) == UNION {[1..k -> S] : k \in 1..n}

\* getaddrinfo(hostname, servname, hints, &res): an error code and no list,
\* or 0 and a list of at most n candidates of the family asked for
getaddrinfo(family, port, n) ==
    {[err |-> c, list |-> <<>>] : c \in {EAI_NONAME}}
    \cup {[err |-> 0, list |-> l] : l \in ListsOver(Pool(family, port), n)}

\* The peer address as the did-open hook writes it to control.ip
IpStr(a) == IF a.ai_family = "AF_INET" THEN "10.0.0.1" ELSE "2001:db8::1"

\* ---- tcp_open -------------------------------------------------------------
Options(listen, dns_cache, dns_cache_timeout, dns_cache_clear, addrinfo_timeout, one_by_one) ==
    [listen |-> listen, dns_cache |-> dns_cache, dns_cache_timeout |-> dns_cache_timeout,
     dns_cache_clear |-> dns_cache_clear, addrinfo_timeout |-> addrinfo_timeout,
     addrinfo_one_by_one |-> one_by_one, open_timeout |-> -1]

IdleTcp ==
    [pc |-> "idle", s |-> Options(0, 0, -1, 0, -1, 0), hostname |-> "", hostname_bak |-> "",
     port |-> 0, hit_dns_cache |-> 0, ai |-> 0, cur_ai |-> 0, fd |-> -1, ret |-> 0,
     gai_ret |-> 0, n_ai |-> 0,
     cur_time |-> 0, new_dns_cache_info |-> 0, control_ip |-> "", s_fd |-> -1,
     socks |-> <<>>, log |-> <<>>]

\* The TCPAddrinfoRequest of a call, with the locals of the waiter (start,
\* now, wait_time) and of the worker thread (wpc, i, temp_addrinfo).
\* refs is the reference count of req->buffer, frees the number of times
\* tcp_getaddrinfo_request_free ran on it, mutex the holder of req->mutex,
\* interrupt what ff_check_interrupt returns.  lookups remembers what each
\* getaddrinfo of the worker returned, interrupt_time the clock at which the
\* interrupt callback turned true (-1 before), wait_since the clock at which
\* the current timed wait began.
IdleRq ==
    [refs |-> 0, frees |-> 0, mutex |-> "free", res |-> 0, finished |-> 0, last_error |-> 0,
     ai_family |-> "AF_UNSPEC", interrupt |-> FALSE, start |-> 0, now |-> 0, wait_time |-> 0,
     wpc |-> "none", i |-> 0, temp_addrinfo |-> 0, lookups |-> <<>>,
     interrupt_time |-> -1, wait_since |-> 0]

\* What the call did to candidate cand: ev with the value val, and the answer
\* ret of an observer hook
Event(ev, cand, val, ret) == [ev |-> ev, cand |-> cand, val |-> val, ret |-> ret]

\* closesocket(fd) when fd >= 0
closesocket(c) ==
    IF c.fd >= 0
    THEN [c EXCEPT !.socks[c.fd].open = FALSE, !.log = Append(@, Event("close", c.socks[c.fd].cand, c.fd, 0))]
    ELSE c

\* Lines 619-627: the connection is established
tcp_open_success(c, hp) ==
    [c |-> [c EXCEPT !.pc = "done", !.ret = 0, !.s_fd = c.fd],
     hp |-> IF c.s.dns_cache = 0 \/ c.hit_dns_cache = 0
            THEN Free(hp, c.ai)
            ELSE free_private_addrinfo(hp, c.ai)]

\* A final failure path that forgets closesocket(fd)
tcp_open_fail1_leak(c, hp) ==
    IF c.s.dns_cache # 0 /\ c.hit_dns_cache # 0
    THEN [c |-> [c EXCEPT !.pc = "fail1_lock"], hp |-> hp]
    ELSE [c |-> [c EXCEPT !.pc = "done"], hp |-> Free(hp, c.ai)]

\* Label fail1, lines 638-658, up to the lock of line 643
tcp_open_fail1(c, hp) ==
    LET closed == closesocket(c)
    IN  IF c.s.dns_cache # 0 /\ c.hit_dns_cache # 0
        THEN [c |-> [closed EXCEPT !.pc = "fail1_lock"], hp |-> hp]
        ELSE [c |-> [closed EXCEPT !.pc = "done"], hp |-> Free(hp, c.ai)]

\* A failure path that never tries the next candidate
tcp_open_fail_giveup(c, hp) == tcp_open_fail1(c, hp)

\* A retry that forgets closesocket(fd)
tcp_open_fail_leak(c, hp) ==
    IF c.cur_ai < Len(hp[c.ai].ais)
    THEN [c |-> [c EXCEPT !.cur_ai = c.cur_ai + 1, !.ret = 0, !.pc = "restart"], hp |-> hp]
    ELSE tcp_open_fail1(c, hp)

\* Label fail, lines 629-637
tcp_open_fail(c, hp) ==
    IF c.cur_ai < Len(hp[c.ai].ais)
    THEN [c |-> [closesocket(c) EXCEPT !.cur_ai = c.cur_ai + 1, !.ret = 0, !.pc = "restart"],
          hp |-> hp]
    ELSE tcp_open_fail1(c, hp)

\* A refusal of the will-open hook handled as a failure of the candidate
will_open_refused_retry(c, hp) == tcp_open_fail(c, hp)

\* Lines 593-597: the will-open hook refuses the attempt
will_open_refused(c, hp) == tcp_open_fail1(c, hp)

\* A refusal of the did-open hook handled as a failure of the candidate
did_open_refused_retry(c, hp) == tcp_open_fail(c, hp)

\* Lines 608-611: the did-open hook refuses an established connection
did_open_refused(c, hp) == tcp_open_fail1(c, hp)

\* Lines 554-562: an IPv6 candidate without a port gets the port of the URI
FillPort(a, port) ==
    IF a.ai_family = "AF_INET6" /\ SubSeq(a.ai_addr, 3, 4) = <<0, 0>>
    THEN [a EXCEPT !.ai_addr = SubSeq(@, 1, 2) \o htons(port) \o SubSeq(@, 5, Len(@))]
    ELSE a

\* What an observer hook may return: 0, or a refusal
HookResults == {0, -1}

\* The candidate cur_ai points to
CurAi(c, hp) == hp[c.ai].ais[c.cur_ai]

\* Lines 461-529: the options, the URI, and get_dns_cache up to its lock.
\* e is the environment: the URIs and options callers use and the answers
\* of the platform.
tcp_open_start(t, e) ==
    /\ tcp[t].pc \in {"idle", "done"}
    /\ rq[t].wpc = "none"
    /\ calls < e.calls
    /\ \E uri \in e.uris, s \in e.opts :
         LET c == [IdleTcp EXCEPT
                     !.s = [s EXCEPT !.open_timeout = IF @ < 0 THEN DefaultOpenTimeout ELSE @],
                     !.hostname = uri.hostname, !.port = uri.port]
         IN  tcp' = [tcp EXCEPT ![t] =
                 IF uri.proto # "tcp" \/ uri.port <= 0 \/ uri.port >= 65536
                 THEN [c EXCEPT !.pc = "done", !.ret = AVERROR_EINVAL]
                 ELSE IF s.dns_cache # 0
                 THEN [c EXCEPT !.hostname_bak = uri.hostname, !.cur_time = now,
                                !.pc = IF uri.hostname = "" THEN "resolve"
                                       ELSE "get_dns_cache_lock"]
                 ELSE [c EXCEPT !.pc = "resolve"]]
    /\ calls' = calls + 1
    /\ rq' = [rq EXCEPT ![t] = IdleRq]
    /\ UNCHANGED <<now, dns_dictionary, dns_dictionary_mutex, heap>>

\* Line 367
get_dns_cache_lock(t) ==
    /\ tcp[t].pc = "get_dns_cache_lock"
    /\ dns_dictionary_mutex = 0
    /\ dns_dictionary_mutex' = t
    /\ tcp' = [tcp EXCEPT ![t].pc = "get_dns_cache"]
    /\ UNCHANGED <<now, dns_dictionary, heap, rq, calls>>

\* Lines 368-412, and lines 528-531 and 551 of the caller
get_dns_cache_unlock(t) ==
    /\ tcp[t].pc = "get_dns_cache"
    /\ dns_dictionary_mutex = t
    /\ LET c == tcp[t]
           r == get_dns_cache(dns_dictionary, heap, c.hostname, c.s, c.cur_time)
       IN  /\ dns_dictionary' = r.dict
           /\ heap' = r.heap
           /\ tcp' = [tcp EXCEPT ![t] =
                        IF r.ret # 0
                        THEN [c EXCEPT !.hit_dns_cache = r.ret, !.ai = r.ai, !.cur_ai = 1,
                                       !.n_ai = 1, !.pc = "restart"]
                        ELSE [c EXCEPT !.pc = "resolve"]]
    /\ dns_dictionary_mutex' = 0
    /\ UNCHANGED <<now, rq, calls>>

\* A resolver that starts a worker thread for a timeout of 0 as well
UsesWorkerFromZero(s) == s.addrinfo_timeout >= 0

\* Line 266: a worker thread is used for a positive timeout only
UsesWorker(s) == s.addrinfo_timeout > 0

\* Lines 263-267 and 543-551: resolution on the calling thread
tcp_getaddrinfo_sync(t, e) ==
    /\ tcp[t].pc = "resolve"
    /\ ~UsesWorker(tcp[t].s)
    /\ \E r \in getaddrinfo("AF_UNSPEC", tcp[t].port, e.ncand) :
         IF r.err # 0
         THEN /\ tcp' = [tcp EXCEPT ![t].pc = "done", ![t].ret = AVERROR_EIO,
                                    ![t].gai_ret = r.err]
              /\ heap' = heap
         ELSE /\ heap' = Append(heap, Object("list", 0, 0, r.list, 0))
              /\ tcp' = [tcp EXCEPT ![t].ai = Len(heap) + 1, ![t].cur_ai = 1,
                                    ![t].n_ai = Len(r.list), ![t].pc = "restart"]
    /\ UNCHANGED <<now, dns_dictionary, dns_dictionary_mutex, rq, calls>>

\* Lines 553-597: the port fill-in, the socket, and by listen mode ff_listen,
\* ff_listen_bind or the will-open hook
tcp_open_restart(t, e) ==
    /\ tcp[t].pc = "restart"
    /\ \E sock \in e.socket, r \in e.listen, will \in e.will :
         LET c == tcp[t]
             hp == [heap EXCEPT ![c.ai].ais[c.cur_ai] = FillPort(@, c.port)]
             nofd == [c EXCEPT !.fd = -1, !.ret = AVERROR_EMFILE,
                               !.log = Append(@, Event("socket", c.cur_ai, -1, 0))]
             fd == Len(c.socks) + 1
             c1 == [c EXCEPT !.fd = fd,
                             !.socks = Append(@, [cand |-> c.cur_ai, open |-> TRUE]),
                             !.log = Append(@, Event("socket", c.cur_ai, fd, 0))]
             listened == [c1 EXCEPT !.ret = r, !.log = Append(@, Event("listen", c.cur_ai, r, 0))]
             accepted == [listened EXCEPT !.fd = fd + 1, !.ret = fd + 1,
                                          !.socks = Append([@ EXCEPT ![fd].open = FALSE],
                                                           [cand |-> c.cur_ai, open |-> TRUE])]
             asked == [c1 EXCEPT !.ret = will,
                                 !.log = Append(@, Event("will_open", c.cur_ai, 0, will))]
             out == IF ~sock THEN tcp_open_fail(nofd, hp)
                    ELSE IF c.s.listen = 2
                    THEN IF r < 0 THEN tcp_open_fail1(listened, hp)
                         ELSE tcp_open_success(listened, hp)
                    ELSE IF c.s.listen = 1
                    THEN IF r < 0 THEN tcp_open_fail1(listened, hp)
                         ELSE tcp_open_success(accepted, hp)
                    ELSE IF will # 0 THEN will_open_refused(asked, hp)
                    ELSE [c |-> [asked EXCEPT !.pc = "connect"], hp |-> hp]
         IN  /\ tcp' = [tcp EXCEPT ![t] = out.c]
             /\ heap' = out.hp
    /\ UNCHANGED <<now, dns_dictionary, dns_dictionary_mutex, rq, calls>>

\* Lines 599-616: the blocking connect, the did-open hook, and set_dns_cache
\* up to its lock (lines 415-450)
tcp_open_connect(t, e) ==
    /\ tcp[t].pc = "connect"
    /\ \E r \in e.connect, did \in e.did, ip \in e.ips :
         LET c == tcp[t]
             cur == CurAi(c, heap)
             c1 == [c EXCEPT !.ret = r,
                             !.control_ip = IF ip = "peer" THEN IpStr(cur) ELSE "",
                             !.log = @ \o <<Event("connect", c.cur_ai, r, 0),
                                            Event("did_open", c.cur_ai, r, did)>>]
             out == IF r < 0
                    THEN IF did # 0 \/ r = AVERROR_EXIT THEN tcp_open_fail1(c1, heap)
                         ELSE tcp_open_fail(c1, heap)
                    ELSE IF did # 0 THEN did_open_refused([c1 EXCEPT !.ret = did], heap)
                    ELSE IF /\ c.s.dns_cache # 0
                            /\ c.hit_dns_cache = 0
                            /\ c1.control_ip # c.hostname_bak
                            /\ c.hostname_bak # ""
                    THEN IF cur.ai_addr = NoAddr THEN tcp_open_success(c1, heap)
                         ELSE [c |-> [c1 EXCEPT !.cur_time = now,
                                                !.new_dns_cache_info = Len(heap) + 2,
                                                !.pc = "set_dns_cache_lock"],
                               hp |-> new_dns_cache_info(heap, cur, now)]
                    ELSE tcp_open_success(c1, heap)
         IN  /\ tcp' = [tcp EXCEPT ![t] = out.c]
             /\ heap' = out.hp
    /\ UNCHANGED <<now, dns_dictionary, dns_dictionary_mutex, rq, calls>>

\* Line 451
set_dns_cache_lock(t) ==
    /\ tcp[t].pc = "set_dns_cache_lock"
    /\ dns_dictionary_mutex = 0
    /\ dns_dictionary_mutex' = t
    /\ tcp' = [tcp EXCEPT ![t].pc = "set_dns_cache"]
    /\ UNCHANGED <<now, dns_dictionary, heap, rq, calls>>

\* Lines 452-453, then lines 619-627 of the caller
set_dns_cache_unlock(t) ==
    /\ tcp[t].pc = "set_dns_cache"
    /\ dns_dictionary_mutex = t
    /\ LET c == tcp[t]
           out == tcp_open_success(c, heap)
       IN  /\ dns_dictionary' = set_dns_cache(dns_dictionary, c.hostname_bak, c.new_dns_cache_info)
           /\ tcp' = [tcp EXCEPT ![t] = out.c]
           /\ heap' = out.hp
    /\ dns_dictionary_mutex' = 0
    /\ UNCHANGED <<now, rq, calls>>

\* Line 643
tcp_open_fail1_lock(t) ==
    /\ tcp[t].pc = "fail1_lock"
    /\ dns_dictionary_mutex = 0
    /\ dns_dictionary_mutex' = t
    /\ tcp' = [tcp EXCEPT ![t].pc = "fail1"]
    /\ UNCHANGED <<now, dns_dictionary, heap, rq, calls>>

\* Lines 644-654 and 658
tcp_open_fail1_unlock(t) ==
    /\ tcp[t].pc = "fail1"
    /\ dns_dictionary_mutex = t
    /\ LET c == tcp[t]
           r == dns_cache_invalidate(dns_dictionary, heap, c.hostname_bak)
       IN  /\ dns_dictionary' = r.dict
           /\ heap' = free_private_addrinfo(r.heap, c.ai)
           /\ tcp' = [tcp EXCEPT ![t].pc = "done"]
    /\ dns_dictionary_mutex' = 0
    /\ UNCHANGED <<now, rq, calls>>

\* ---- ijk_tcp_getaddrinfo_nonblock with a timeout --------------------------
\* A worker that asks for IPv6 first
family_option_v6_first == <<"AF_INET6", "AF_INET">>

\* family_option of tcp_getaddrinfo_one_by_one_worker
family_option == <<"AF_INET", "AF_INET6">>

\* A release that frees the request whichever reference goes
av_buffer_unref_eager(r, hp) ==
    [r |-> [r EXCEPT !.refs = @ - 1, !.frees = @ + 1, !.res = 0], hp |-> Free(hp, r.res)]

\* tcp_getaddrinfo_request_free, lines 121-134, as av_buffer_unref runs it when
\* the last reference goes
av_buffer_unref(r, hp) ==
    IF r.refs = 1
    THEN [r |-> [r EXCEPT !.refs = 0, !.frees = @ + 1, !.res = 0], hp |-> Free(hp, r.res)]
    ELSE [r |-> [r EXCEPT !.refs = @ - 1], hp |-> hp]

\* Lines 543-551 of tcp_open, after the resolver returned ret and *res
tcp_open_resolved(c, ret, ai, hp) ==
    IF ret # 0
    THEN [c EXCEPT !.gai_ret = ret, !.ret = AVERROR_EIO, !.pc = "done"]
    ELSE [c EXCEPT !.gai_ret = 0, !.ret = 0, !.ai = ai, !.cur_ai = 1,
                   !.n_ai = Len(hp[ai].ais), !.pc = "restart"]

\* Lines 269-293: the request, the second reference, the worker thread.
\* tcp_getaddrinfo_request_create (lines 143-195) fails on line 175 when
\* hostname is NULL; spawn says whether av_buffer_ref and pthread_create
\* succeed.
ijk_tcp_getaddrinfo_nonblock(t, e) ==
    /\ tcp[t].pc = "resolve"
    /\ UsesWorker(tcp[t].s)
    /\ \E spawn \in e.spawn :
         LET c == tcp[t]
             created == [IdleRq EXCEPT !.refs = 1]
         IN  IF c.hostname = ""
             THEN /\ rq' = [rq EXCEPT ![t] = [IdleRq EXCEPT !.frees = 1]]
                  /\ tcp' = [tcp EXCEPT ![t] = tcp_open_resolved(c, AVERROR_ENOMEM, 0, heap)]
             ELSE IF spawn = "no_ref"
             THEN /\ rq' = [rq EXCEPT ![t] = created]
                  /\ tcp' = [tcp EXCEPT ![t] = tcp_open_resolved(c, AVERROR_ENOMEM, 0, heap)]
             ELSE IF spawn = "no_thread"
             THEN /\ rq' = [rq EXCEPT ![t] = created]
                  /\ tcp' = [tcp EXCEPT ![t] = tcp_open_resolved(c, AVERROR_EAGAIN, 0, heap)]
             ELSE /\ rq' = [rq EXCEPT ![t] =
                              [created EXCEPT !.refs = 2, !.start = now, !.now = now,
                                  !.wpc = IF c.s.addrinfo_one_by_one # 0 THEN "one_lookup"
                                          ELSE "lookup"]]
                  /\ tcp' = [tcp EXCEPT ![t].pc = "nonblock_lock"]
    /\ UNCHANGED <<now, dns_dictionary, dns_dictionary_mutex, heap, calls>>

\* Line 295
nonblock_lock(t) ==
    /\ tcp[t].pc = "nonblock_lock"
    /\ rq[t].mutex = "free"
    /\ rq' = [rq EXCEPT ![t].mutex = "waiter"]
    /\ tcp' = [tcp EXCEPT ![t].pc = "nonblock_check"]
    /\ UNCHANGED <<now, dns_dictionary, dns_dictionary_mutex, heap, calls>>

\* The slice of one timed wait: line 297
WaitTime(n) == n + WaitSlice

\* A wait loop that only ends when the worker has finished
WaitOverFinished(r, timeout) == r.finished # 0

\* Line 301: the worker has finished or the deadline has passed
WaitOver(r, timeout) == r.finished # 0 \/ r.start + timeout < r.now

\* A waiter that hands req->res to the caller and leaves it in the request
nonblock_check_shared(t) ==
    /\ tcp[t].pc = "nonblock_check"
    /\ LET c == tcp[t]
           r == rq[t]
           waited == [r EXCEPT !.wait_time = WaitTime(r.now)]
       IN  IF WaitOver(r, c.s.addrinfo_timeout)
           THEN LET ret == IF r.res # 0 THEN 0
                           ELSE IF r.last_error # 0 THEN r.last_error ELSE AVERROR_EXIT
                    out == av_buffer_unref([waited EXCEPT !.mutex = "free"], heap)
                IN  /\ rq' = [rq EXCEPT ![t] = out.r]
                    /\ heap' = out.hp
                    /\ tcp' = [tcp EXCEPT ![t] = tcp_open_resolved(c, ret, r.res, heap)]
           ELSE /\ rq' = [rq EXCEPT ![t] = [waited EXCEPT !.mutex = "free", !.wait_since = now]]
                /\ heap' = heap
                /\ tcp' = [tcp EXCEPT ![t].pc = "nonblock_wait"]
    /\ UNCHANGED <<now, dns_dictionary, dns_dictionary_mutex, calls>>

\* Lines 297-310: the top of the wait loop, then either lines 329-332 and the
\* return to tcp_open, or the timed wait of line 314, which releases the mutex
nonblock_check(t) ==
    /\ tcp[t].pc = "nonblock_check"
    /\ LET c == tcp[t]
           r == rq[t]
           waited == [r EXCEPT !.wait_time = WaitTime(r.now)]
       IN  IF WaitOver(r, c.s.addrinfo_timeout)
           THEN LET ret == IF r.res # 0 THEN 0
                           ELSE IF r.last_error # 0 THEN r.last_error ELSE AVERROR_EXIT
                    taken == [waited EXCEPT !.res = 0, !.mutex = "free"]
                    out == av_buffer_unref(taken, heap)
                IN  /\ rq' = [rq EXCEPT ![t] = out.r]
                    /\ heap' = out.hp
                    /\ tcp' = [tcp EXCEPT ![t] = tcp_open_resolved(c, ret, r.res, heap)]
           ELSE /\ rq' = [rq EXCEPT ![t] = [waited EXCEPT !.mutex = "free", !.wait_since = now]]
                /\ heap' = heap
                /\ tcp' = [tcp EXCEPT ![t].pc = "nonblock_wait"]
    /\ UNCHANGED <<now, dns_dictionary, dns_dictionary_mutex, calls>>

\* Lines 314-327: the timed wait returns (signalled, timed out or spuriously)
\* with the mutex held again; then the interrupt check and the clock
nonblock_wake(t) ==
    /\ tcp[t].pc = "nonblock_wait"
    /\ rq[t].mutex = "free"
    /\ LET c == tcp[t]
           r == rq[t]
       IN  IF r.interrupt
           THEN LET out == av_buffer_unref(r, heap)
                IN  /\ rq' = [rq EXCEPT ![t] = out.r]
                    /\ heap' = out.hp
                    /\ tcp' = [tcp EXCEPT ![t] = tcp_open_resolved(c, AVERROR_EXIT, 0, heap)]
           ELSE /\ rq' = [rq EXCEPT ![t] = [r EXCEPT !.mutex = "waiter", !.now = now]]
                /\ heap' = heap
                /\ tcp' = [tcp EXCEPT ![t].pc = "nonblock_check"]
    /\ UNCHANGED <<now, dns_dictionary, dns_dictionary_mutex, calls>>

\* The interrupt callback of the caller starts to return true
Interrupt(t) ==
    /\ tcp[t].pc \in {"nonblock_lock", "nonblock_check", "nonblock_wait"}
    /\ ~rq[t].interrupt
    /\ rq' = [rq EXCEPT ![t].interrupt = TRUE, ![t].interrupt_time = now]
    /\ UNCHANGED <<now, dns_dictionary, dns_dictionary_mutex, heap, tcp, calls>>

Lookup(family, r) == [family |-> family, err |-> r.err, list |-> r.list]

\* tcp_getaddrinfo_worker, line 201: the result goes to req->res, the return
\* value nowhere
tcp_getaddrinfo_worker(t, e) ==
    /\ rq[t].wpc = "lookup"
    /\ \E r \in getaddrinfo("AF_UNSPEC", tcp[t].port, e.ncand) :
         /\ heap' = IF r.err # 0 THEN heap ELSE Append(heap, Object("list", 0, 0, r.list, 0))
         /\ rq' = [rq EXCEPT ![t].res = IF r.err # 0 THEN @ ELSE Len(heap) + 1,
                             ![t].lookups = Append(@, Lookup("AF_UNSPEC", r)),
                             ![t].wpc = "lock"]
    /\ UNCHANGED <<now, dns_dictionary, dns_dictionary_mutex, tcp, calls>>

\* tcp_getaddrinfo_one_by_one_worker, lines 224-231: one family's lookup
tcp_getaddrinfo_one_by_one_worker(t, e) ==
    /\ rq[t].wpc = "one_lookup"
    /\ LET family == family_option[rq[t].i + 1]
       IN  \E r \in getaddrinfo(family, tcp[t].port, e.ncand) :
             IF r.err # 0
             THEN /\ heap' = heap
                  /\ rq' = [rq EXCEPT ![t].ai_family = family, ![t].last_error = r.err,
                                      ![t].lookups = Append(@, Lookup(family, r)),
                                      ![t].i = @ + 1,
                                      ![t].wpc = IF rq[t].i + 1 < Len(family_option)
                                                 THEN "one_lookup" ELSE "lock"]
             ELSE /\ heap' = Append(heap, Object("list", 0, 0, r.list, 0))
                  /\ rq' = [rq EXCEPT ![t].ai_family = family,
                                      ![t].temp_addrinfo = Len(heap) + 1,
                                      ![t].lookups = Append(@, Lookup(family, r)),
                                      ![t].wpc = "one_lock"]
    /\ UNCHANGED <<now, dns_dictionary, dns_dictionary_mutex, tcp, calls>>

\* Line 232
one_by_one_worker_lock(t) ==
    /\ rq[t].wpc = "one_lock"
    /\ rq[t].mutex = "free"
    /\ rq' = [rq EXCEPT ![t].mutex = "worker", ![t].wpc = "one_attach"]
    /\ UNCHANGED <<now, dns_dictionary, dns_dictionary_mutex, heap, tcp, calls>>

\* Lines 233-241: the family's list becomes req->res or the tail of it
one_by_one_worker_attach(t) ==
    /\ rq[t].wpc = "one_attach"
    /\ LET r == rq[t]
           next == [r EXCEPT !.mutex = "free", !.i = @ + 1,
                             !.wpc = IF r.i + 1 < Len(family_option) THEN "one_lookup"
                                     ELSE "lock"]
       IN  IF r.res = 0
           THEN /\ rq' = [rq EXCEPT ![t] = [next EXCEPT !.res = r.temp_addrinfo]]
                /\ heap' = heap
           ELSE /\ rq' = [rq EXCEPT ![t] = next]
                /\ heap' = [heap EXCEPT ![r.res].ais = @ \o heap[r.temp_addrinfo].ais,
                                        ![r.temp_addrinfo].kind = "tail",
                                        ![r.temp_addrinfo].ais = <<>>,
                                        ![r.temp_addrinfo].src = r.res]
    /\ UNCHANGED <<now, dns_dictionary, dns_dictionary_mutex, tcp, calls>>

\* Lines 202 and 243
worker_lock(t) ==
    /\ rq[t].wpc = "lock"
    /\ rq[t].mutex = "free"
    /\ rq' = [rq EXCEPT ![t].mutex = "worker", ![t].wpc = "finish"]
    /\ UNCHANGED <<now, dns_dictionary, dns_dictionary_mutex, heap, tcp, calls>>

\* Lines 203-205 and 244-246
worker_finish(t) ==
    /\ rq[t].wpc = "finish"
    /\ rq' = [rq EXCEPT ![t].finished = 1, ![t].mutex = "free", ![t].wpc = "unref"]
    /\ UNCHANGED <<now, dns_dictionary, dns_dictionary_mutex, heap, tcp, calls>>

\* Lines 206 and 247
worker_unref(t) ==
    /\ rq[t].wpc = "unref"
    /\ LET out == av_buffer_unref(rq[t], heap)
       IN  /\ rq' = [rq EXCEPT ![t] = [out.r EXCEPT !.wpc = "none"]]
           /\ heap' = out.hp
    /\ UNCHANGED <<now, dns_dictionary, dns_dictionary_mutex, tcp, calls>>

\* av_gettime() moves on to a later instant of I
Tick(I) ==
    /\ \E x \in I :
         /\ x > now
         /\ \A t \in Threads : tcp[t].pc = "nonblock_wait" => x <= rq[t].wait_time
         /\ now' = x
    /\ UNCHANGED <<dns_dictionary, dns_dictionary_mutex, heap, tcp, rq, calls>>

Init ==
    /\ now = 0
    /\ dns_dictionary = <<>>
    /\ dns_dictionary_mutex = 0
    /\ heap = <<>>
    /\ tcp = [t \in Threads |-> IdleTcp]
    /\ rq = [t \in Threads |-> IdleRq]
    /\ calls = 0

Uri(hostname, port) == [proto |-> "tcp", hostname |-> hostname, port |-> port]

\* ---- the specifications ---------------------------------------------------
\* An environment: the URIs and options callers use, how many calls they
\* make, and what the platform and the observer may answer.
Env(uris, opts, ncalls, ncand) ==
    [uris |-> uris, opts |-> opts, calls |-> ncalls, ncand |-> ncand, spawn |-> {"ok"},
     socket |-> BOOLEAN, listen |-> {0, AVERROR_EADDRINUSE}, will |-> HookResults,
     connect |-> {0, AVERROR_ECONNREFUSED, AVERROR_EXIT}, did |-> HookResults,
     ips |-> {"peer", "none"}]

\* The addrinfo_timeout the callers with a worker thread use
ResolveTimeout == 150000

\* Every caller, URI, option and answer of the platform
EnvAll ==
    [Env({Uri("h", 80), Uri("h", 0), Uri("", 80)},
         {Options(l, d, ttl, clear, timeout, o) :
            l \in {0, 1, 2}, d \in {0, 1}, ttl \in {-1, 0, 1}, clear \in {0, 1},
            timeout \in {-1, ResolveTimeout}, o \in {0, 1}},
         MaxCalls, MaxCand)
     EXCEPT !.spawn = {"ok", "no_ref", "no_thread"}]

Next ==
    \/ \E t \in Threads :
        \/ tcp_open_start(t, EnvAll)
        \/ get_dns_cache_lock(t)
        \/ get_dns_cache_unlock(t)
        \/ tcp_getaddrinfo_sync(t, EnvAll)
        \/ ijk_tcp_getaddrinfo_nonblock(t, EnvAll)
        \/ nonblock_lock(t)
        \/ nonblock_check(t)
        \/ nonblock_wake(t)
        \/ Interrupt(t)
        \/ tcp_getaddrinfo_worker(t, EnvAll)
        \/ tcp_getaddrinfo_one_by_one_worker(t, EnvAll)
        \/ one_by_one_worker_lock(t)
        \/ one_by_one_worker_attach(t)
        \/ worker_lock(t)
        \/ worker_finish(t)
        \/ worker_unref(t)
        \/ tcp_open_restart(t, EnvAll)
        \/ tcp_open_connect(t, EnvAll)
        \/ set_dns_cache_lock(t)
        \/ set_dns_cache_unlock(t)
        \/ tcp_open_fail1_lock(t)
        \/ tcp_open_fail1_unlock(t)
    \/ Tick({k * 50000 : k \in 0..MaxTicks} \cup {1, 2, 1000})

Spec == Init /\ [][Next]_vars

\* The specifications below are Spec with the environment narrowed to what a
\* property is about.

\* One caller, every listen mode, with and without the cache, resolution on
\* the calling thread.
EnvConnect ==
    Env({Uri("h", 80), Uri("h", 0)},
        {Options(l, d, -1, 0, -1, 0) : l \in {0, 1, 2}, d \in {0, 1}},
        MaxCalls, MaxCand)

NextConnect ==
    \/ tcp_open_start(1, EnvConnect)
    \/ get_dns_cache_lock(1)
    \/ get_dns_cache_unlock(1)
    \/ tcp_getaddrinfo_sync(1, EnvConnect)
    \/ tcp_open_restart(1, EnvConnect)
    \/ tcp_open_connect(1, EnvConnect)
    \/ set_dns_cache_lock(1)
    \/ set_dns_cache_unlock(1)
    \/ tcp_open_fail1_lock(1)
    \/ tcp_open_fail1_unlock(1)

SpecConnect == Init /\ [][NextConnect]_vars

\* One caller, no cache, resolution on a worker thread with a timeout, in
\* connect mode with an observer that never refuses.
EnvResolve ==
    [Env({Uri("h", 80)},
         {Options(0, 0, -1, 0, ResolveTimeout, o) : o \in {0, 1}},
         MaxResolveCalls, MaxFamilyCand)
     EXCEPT !.will = {0}, !.did = {0}, !.socket = {TRUE}, !.ips = {"none"},
            !.connect = {0, AVERROR_ECONNREFUSED}]

\* Half slices, enough of them for every call to see its deadline pass
ResolveInstants == {k * 50000 : k \in 0..(MaxTicks * MaxResolveCalls)}

Resolving(t) == tcp[t].pc \in {"nonblock_lock", "nonblock_check", "nonblock_wait"}

\* The instants up to one slice past the deadline of the call of thread t:
\* what line 301 compares the clock with
ClockSeen(t) ==
    {x \in ResolveInstants : x <= rq[t].start + tcp[t].s.addrinfo_timeout + WaitSlice}

NextResolve ==
    \/ tcp_open_start(1, EnvResolve)
    \/ tcp_open_restart(1, EnvResolve)
    \/ tcp_open_connect(1, EnvResolve)
    \/ ijk_tcp_getaddrinfo_nonblock(1, EnvResolve)
    \/ nonblock_lock(1)
    \/ nonblock_check(1)
    \/ nonblock_wake(1)
    \/ Interrupt(1)
    \/ tcp_getaddrinfo_worker(1, EnvResolve)
    \/ tcp_getaddrinfo_one_by_one_worker(1, EnvResolve)
    \/ one_by_one_worker_lock(1)
    \/ one_by_one_worker_attach(1)
    \/ worker_lock(1)
    \/ worker_finish(1)
    \/ worker_unref(1)
    \/ Resolving(1) /\ Tick(ClockSeen(1))

SpecResolve == Init /\ [][NextResolve]_vars

\* The same with the scheduling the code relies on: the waiter runs, the
\* worker leaves the critical sections it has entered, the clock advances.
SpecResolveFair ==
    /\ SpecResolve
    /\ WF_vars(nonblock_lock(1))
    /\ WF_vars(nonblock_check(1))
    /\ WF_vars(nonblock_wake(1))
    /\ WF_vars(one_by_one_worker_attach(1))
    /\ WF_vars(worker_finish(1))
    /\ WF_vars(Resolving(1) /\ Tick(ClockSeen(1)))

\* The worker resolver where av_buffer_ref (line 273) or pthread_create
\* (lines 281-283) may fail
EnvSpawn == [EnvResolve EXCEPT !.spawn = {"ok", "no_ref", "no_thread"}]

NextSpawn ==
    \/ tcp_open_start(1, EnvSpawn)
    \/ tcp_open_restart(1, EnvSpawn)
    \/ tcp_open_connect(1, EnvSpawn)
    \/ ijk_tcp_getaddrinfo_nonblock(1, EnvSpawn)
    \/ nonblock_lock(1)
    \/ nonblock_check(1)
    \/ nonblock_wake(1)
    \/ Interrupt(1)
    \/ tcp_getaddrinfo_worker(1, EnvSpawn)
    \/ tcp_getaddrinfo_one_by_one_worker(1, EnvSpawn)
    \/ one_by_one_worker_lock(1)
    \/ one_by_one_worker_attach(1)
    \/ worker_lock(1)
    \/ worker_finish(1)
    \/ worker_unref(1)
    \/ Resolving(1) /\ Tick(ClockSeen(1))

SpecSpawn == Init /\ [][NextSpawn]_vars

\* The waiter runs, the clock advances, and a spawned worker runs to its end:
\* every getaddrinfo of it returns
SpecSpawnFair ==
    /\ SpecSpawn
    /\ WF_vars(nonblock_lock(1))
    /\ WF_vars(nonblock_check(1))
    /\ WF_vars(nonblock_wake(1))
    /\ WF_vars(tcp_getaddrinfo_worker(1, EnvSpawn))
    /\ WF_vars(tcp_getaddrinfo_one_by_one_worker(1, EnvSpawn))
    /\ WF_vars(one_by_one_worker_lock(1))
    /\ WF_vars(one_by_one_worker_attach(1))
    /\ WF_vars(worker_lock(1))
    /\ WF_vars(worker_finish(1))
    /\ WF_vars(worker_unref(1))
    /\ WF_vars(Resolving(1) /\ Tick(ClockSeen(1)))

\* The worker resolver called with an empty and with a non-empty hostname,
\* no allocation and no pthread_create failing
EnvEmptyHost == [EnvResolve EXCEPT !.uris = {Uri("h", 80), Uri("", 80)}]

NextEmptyHost ==
    \/ tcp_open_start(1, EnvEmptyHost)
    \/ tcp_open_restart(1, EnvEmptyHost)
    \/ tcp_open_connect(1, EnvEmptyHost)
    \/ ijk_tcp_getaddrinfo_nonblock(1, EnvEmptyHost)
    \/ nonblock_lock(1)
    \/ nonblock_check(1)
    \/ nonblock_wake(1)
    \/ Interrupt(1)
    \/ tcp_getaddrinfo_worker(1, EnvEmptyHost)
    \/ tcp_getaddrinfo_one_by_one_worker(1, EnvEmptyHost)
    \/ one_by_one_worker_lock(1)
    \/ one_by_one_worker_attach(1)
    \/ worker_lock(1)
    \/ worker_finish(1)
    \/ worker_unref(1)
    \/ Resolving(1) /\ Tick(ClockSeen(1))

SpecEmptyHost == Init /\ [][NextEmptyHost]_vars

\* One caller, no cache, every kind of resolver timeout: none (-1), 0 and a
\* positive one, in connect mode with an observer that never refuses.
EnvSync ==
    [Env({Uri("h", 80)},
         {Options(0, 0, -1, 0, timeout, o) : timeout \in {-1, 0, ResolveTimeout}, o \in {0, 1}},
         MaxResolveCalls, MaxFamilyCand)
     EXCEPT !.will = {0}, !.did = {0}, !.socket = {TRUE}, !.ips = {"none"},
            !.connect = {0, AVERROR_ECONNREFUSED}]

NextSync ==
    \/ tcp_open_start(1, EnvSync)
    \/ tcp_getaddrinfo_sync(1, EnvSync)
    \/ tcp_open_restart(1, EnvSync)
    \/ tcp_open_connect(1, EnvSync)
    \/ ijk_tcp_getaddrinfo_nonblock(1, EnvSync)
    \/ nonblock_lock(1)
    \/ nonblock_check(1)
    \/ nonblock_wake(1)
    \/ Interrupt(1)
    \/ tcp_getaddrinfo_worker(1, EnvSync)
    \/ tcp_getaddrinfo_one_by_one_worker(1, EnvSync)
    \/ one_by_one_worker_lock(1)
    \/ one_by_one_worker_attach(1)
    \/ worker_lock(1)
    \/ worker_finish(1)
    \/ worker_unref(1)
    \/ Resolving(1) /\ Tick(ClockSeen(1))

SpecSync == Init /\ [][NextSync]_vars

\* One caller of one hostname with the cache on and every TTL setting, in
\* connect mode with an observer that never refuses, while the clock runs.
CacheInstants == {0, 1, 2, 1000}

EnvTtl ==
    [Env({Uri("h", 80)},
         {Options(0, 1, ttl, 0, -1, 0) : ttl \in {-1, 0, 1}},
         MaxCalls, MaxCand)
     EXCEPT !.will = {0}, !.did = {0}, !.ips = {"peer"},
            !.connect = {0, AVERROR_ECONNREFUSED}]

NextTtl ==
    \/ tcp_open_start(1, EnvTtl)
    \/ get_dns_cache_lock(1)
    \/ get_dns_cache_unlock(1)
    \/ tcp_getaddrinfo_sync(1, EnvTtl)
    \/ tcp_open_restart(1, EnvTtl)
    \/ tcp_open_connect(1, EnvTtl)
    \/ set_dns_cache_lock(1)
    \/ set_dns_cache_unlock(1)
    \/ tcp_open_fail1_lock(1)
    \/ tcp_open_fail1_unlock(1)
    \/ Tick(CacheInstants)

SpecTtl == Init /\ [][NextTtl]_vars

\* One caller of a hostname or of an address literal, every listen mode, with
\* and without the cache, while the clock runs.
EnvWrite ==
    [Env({Uri("h", 80), Uri("10.0.0.1", 80)},
         {Options(l, d, -1, 0, -1, 0) : l \in {0, 1, 2}, d \in {0, 1}},
         MaxCalls, MaxCacheCand + 1)
     EXCEPT !.will = {0}, !.did = {0}, !.listen = {0},
            !.connect = {0, AVERROR_ECONNREFUSED}]

NextWrite ==
    \/ tcp_open_start(1, EnvWrite)
    \/ get_dns_cache_lock(1)
    \/ get_dns_cache_unlock(1)
    \/ tcp_getaddrinfo_sync(1, EnvWrite)
    \/ tcp_open_restart(1, EnvWrite)
    \/ tcp_open_connect(1, EnvWrite)
    \/ set_dns_cache_lock(1)
    \/ set_dns_cache_unlock(1)
    \/ tcp_open_fail1_lock(1)
    \/ tcp_open_fail1_unlock(1)
    \/ Tick(CacheInstants)

SpecWrite == Init /\ [][NextWrite]_vars

\* One caller of one hostname with the cache on, every TTL setting, with and
\* without the clear flag, while the clock runs.
EnvClear ==
    [Env({Uri("h", 80)},
         {Options(0, 1, ttl, clear, -1, 0) : ttl \in {-1, 0, 1}, clear \in {0, 1}},
         MaxCalls, MaxCacheCand)
     EXCEPT !.will = {0}, !.did = {0}, !.socket = {TRUE}, !.ips = {"peer"},
            !.connect = {0, AVERROR_ECONNREFUSED}]

NextClear ==
    \/ tcp_open_start(1, EnvClear)
    \/ get_dns_cache_lock(1)
    \/ get_dns_cache_unlock(1)
    \/ tcp_getaddrinfo_sync(1, EnvClear)
    \/ tcp_open_restart(1, EnvClear)
    \/ tcp_open_connect(1, EnvClear)
    \/ set_dns_cache_lock(1)
    \/ set_dns_cache_unlock(1)
    \/ tcp_open_fail1_lock(1)
    \/ tcp_open_fail1_unlock(1)
    \/ Tick(CacheInstants)

SpecClear == Init /\ [][NextClear]_vars

\* Two callers of one hostname sharing the cache, entries never expiring,
\* with and without the clear flag.
EnvCache ==
    [Env({Uri("h", 80)},
         {Options(0, 1, -1, clear, -1, 0) : clear \in {0, 1}},
         MaxCacheCalls, MaxCacheCand)
     EXCEPT !.will = {0}, !.did = {0}, !.socket = {TRUE}, !.ips = {"peer"},
            !.connect = {0, AVERROR_ECONNREFUSED}]

NextCache ==
    \E t \in Threads :
        \/ tcp_open_start(t, EnvCache)
        \/ get_dns_cache_lock(t)
        \/ get_dns_cache_unlock(t)
        \/ tcp_getaddrinfo_sync(t, EnvCache)
        \/ tcp_open_restart(t, EnvCache)
        \/ tcp_open_connect(t, EnvCache)
        \/ set_dns_cache_lock(t)
        \/ set_dns_cache_unlock(t)
        \/ tcp_open_fail1_lock(t)
        \/ tcp_open_fail1_unlock(t)

SpecCache == Init /\ [][NextCache]_vars

\* ---- the claims -------------------------------------------------------------
Events(log, ev) == SelectSeq(log, LAMBDA x : x.ev = ev)

EventOf(log, ev, k) == SelectSeq(log, LAMBDA x : x.ev = ev /\ x.cand = k)

\* Candidate k failed without ending the call: its socket could not be
\* created, or its connect failed with an error other than AVERROR_EXIT and
\* no hook refused
SoftFailed(log, k) ==
    \/ \E i \in 1..Len(log) : log[i] = Event("socket", k, -1, 0)
    \/ /\ \E i \in 1..Len(log) : log[i] = Event("will_open", k, 0, 0)
       /\ \E i \in 1..Len(log) :
            /\ log[i].ev = "did_open" /\ log[i].cand = k /\ log[i].ret = 0
            /\ log[i].val < 0 /\ log[i].val # AVERROR_EXIT

\* Candidate k was reachable: socket, connect and both hooks succeeded
Reached(log, k) ==
    /\ \E i \in 1..Len(log) : log[i].ev = "socket" /\ log[i].cand = k /\ log[i].val >= 0
    /\ \E i \in 1..Len(log) : log[i] = Event("will_open", k, 0, 0)
    /\ \E i \in 1..Len(log) : log[i] = Event("did_open", k, 0, 0)

\* The call of c ran in connect mode on a list whose last candidate only was
\* reachable
OnlyLastReachable(c) ==
    /\ c.pc = "done" /\ c.s.listen = 0 /\ c.n_ai >= 1
    /\ \A k \in 1..(c.n_ai - 1) : SoftFailed(c.log, k)
    /\ Reached(c.log, c.n_ai)

\* A connect-mode call in which every candidate tried so far failed softly
\* has left the candidate loop
GaveUp(c) ==
    /\ c.s.listen = 0 /\ c.n_ai >= 1
    /\ c.pc \in {"done", "fail1_lock", "fail1"}
    /\ \A i \in 1..Len(c.log) : c.log[i].ev = "socket" => SoftFailed(c.log, c.log[i].cand)

SocketCalls(c) == Events(c.log, "socket")

Closed(c) == Events(c.log, "close")

\* The call made one ff_socket call per candidate, in list order
OneSocketCallPerCandidate(c) ==
    /\ Len(SocketCalls(c)) = c.n_ai
    /\ \A k \in 1..c.n_ai : SocketCalls(c)[k].cand = k

\* C1, as stated: with only the last of N candidates reachable, tcp_open
\* returns 0, has created exactly N sockets, one per candidate in list order,
\* has closed the first N-1 of them, and returns the N-th.
C1_AsStated ==
    \A t \in Threads :
        OnlyLastReachable(tcp[t]) =>
            /\ tcp[t].ret = 0
            /\ OneSocketCallPerCandidate(tcp[t])
            /\ Len(tcp[t].socks) = tcp[t].n_ai
            /\ Len(Closed(tcp[t])) = tcp[t].n_ai - 1
            /\ tcp[t].s_fd = SocketCalls(tcp[t])[tcp[t].n_ai].val

\* C1, amended: tcp_open does not leave the candidate loop while a candidate
\* remains after soft failures; with only the last of N candidates reachable
\* it returns 0 after exactly N ff_socket calls, one per candidate in list
\* order, has closed, once each, exactly the sockets that were created for the
\* first N-1 candidates, and the returned handle is the N-th candidate's
\* socket, the only one left open.
C1_Failover ==
    \A t \in Threads :
        LET c == tcp[t]
            created == {SocketCalls(c)[k].val : k \in 1..(c.n_ai - 1)} \ {-1}
        IN  /\ GaveUp(c) => Len(SocketCalls(c)) = c.n_ai
            /\ OnlyLastReachable(c) =>
                 /\ c.ret = 0
                 /\ OneSocketCallPerCandidate(c)
                 /\ {Closed(c)[i].val : i \in 1..Len(Closed(c))} = created
                 /\ Len(Closed(c)) = Cardinality(created)
                 /\ c.s_fd = SocketCalls(c)[c.n_ai].val
                 /\ \A f \in 1..Len(c.socks) : c.socks[f].open <=> f = c.s_fd

\* A call on three candidates of which the first had no socket and the second
\* refused the connection has connected to the third
C1_Witness ==
    \E t \in Threads :
        /\ OnlyLastReachable(tcp[t]) /\ tcp[t].n_ai = 3
        /\ Event("socket", 1, -1, 0) = tcp[t].log[1]
        /\ \E i \in 1..Len(tcp[t].log) :
             tcp[t].log[i] = Event("did_open", 2, AVERROR_ECONNREFUSED, 0)

\* What get_dns_cache would return now for hostname with the TTL ttl and
\* dns_cache_clear = 0
LookupNow(hostname, ttl) ==
    get_dns_cache(dns_dictionary, heap, hostname, Options(0, 1, ttl, 0, -1, 0), now)

Ttls == {-1, 0, 1}

\* Every candidate of the call was tried and failed softly
Exhausted(c) ==
    /\ c.pc = "done" /\ c.n_ai >= 1
    /\ \A k \in 1..c.n_ai : SoftFailed(c.log, k)

\* C2: when no candidate is reachable tcp_open returns a failure, and after a
\* cache hit a lookup of the hostname, with any TTL and no clear flag, misses
\* once tcp_open has returned.
C2_Exhaustion ==
    \A t \in Threads :
        Exhausted(tcp[t]) =>
            /\ tcp[t].ret # 0
            /\ tcp[t].hit_dns_cache # 0 =>
                 \A ttl \in Ttls : LookupNow(tcp[t].hostname, ttl).ret = 0

\* A call that used a cached address has failed on it; the dictionary still
\* has the key
C2_Witness ==
    \E t \in Threads :
        /\ Exhausted(tcp[t]) /\ tcp[t].hit_dns_cache # 0
        /\ av_dict_get(dns_dictionary, tcp[t].hostname) # 0

\* The DnsCacheInfo the dictionary m holds for hostname, 0 when it holds none
CachedInfo(m, hostname) ==
    LET elem == av_dict_get(m, hostname)
    IN  IF elem = 0 THEN 0 ELSE strtoll(m[elem].value)

\* Thread t completes get_dns_cache / set_dns_cache in this step
LookupStep(t) == tcp[t].pc = "get_dns_cache" /\ tcp'[t].pc # "get_dns_cache"
StoreStep(t) == tcp[t].pc = "set_dns_cache" /\ tcp'[t].pc # "set_dns_cache"

\* C3: a lookup without the clear flag, of an entry stored at resolvedAt, with
\* a TTL of ttl >= 0 microseconds, returns the entry exactly when
\* now - resolvedAt <= ttl, now being the clock the lookup read.
C3_AsStated ==
    [][\A t \in Threads :
         LET c == tcp[t]
             info == CachedInfo(dns_dictionary, c.hostname)
         IN  (/\ LookupStep(t)
              /\ c.s.dns_cache_clear = 0
              /\ c.s.dns_cache_timeout >= 0
              /\ info # 0)
             => ((tcp'[t].hit_dns_cache # 0)
                   <=> (c.cur_time - heap[info].dns_cache_time <= c.s.dns_cache_timeout))]_vars

\* Two addrinfo records agree on family, socket type, protocol, address length
\* and on every one of the ai_addrlen address bytes of a
SameRecord(a, b) ==
    /\ a.ai_family = b.ai_family
    /\ a.ai_socktype = b.ai_socktype
    /\ a.ai_protocol = b.ai_protocol
    /\ a.ai_addrlen = b.ai_addrlen
    /\ \A i \in 1..a.ai_addrlen : i \in DOMAIN b.ai_addr /\ b.ai_addr[i] = a.ai_addr[i]

\* C4: a lookup that hits returns a record equal, in family, socket type,
\* protocol, address length and address bytes, to the record that was stored,
\* IPv6 records with their full address included.
C4_AsStated ==
    [][\A t \in Threads :
         (LookupStep(t) /\ tcp'[t].hit_dns_cache # 0)
         => SameRecord(heap[CachedInfo(dns_dictionary, tcp[t].hostname)].src,
                       heap'[tcp'[t].ai].ais[1])]_vars

\* The objects the dictionary reaches: each DnsCacheInfo and its addrinfo
CachePointers ==
    UNION {LET p == strtoll(dns_dictionary[i].value)
           IN  IF p = 0 THEN {} ELSE {p, heap[p].res} : i \in 1..Len(dns_dictionary)}

\* Thread t holds a record it got from the cache and may still write or free
HoldsCopy(t) == tcp[t].hit_dns_cache # 0 /\ tcp[t].pc \in {"restart", "connect"}

\* What a lookup of hostname would return now: hit or miss, and the record
LookupView(hostname) ==
    LET r == LookupNow(hostname, -1)
    IN  [ret |-> r.ret, rec |-> IF r.ret = 0 THEN <<>> ELSE <<r.heap[r.ai].ais[1]>>]

\* C5: the record a lookup returned shares no storage with the cache, and the
\* caller's port fill-in on it and its release of it leave what a later
\* lookup of the hostname returns unchanged.
C5_CopyIsolation ==
    /\ [](\A t \in Threads : HoldsCopy(t) => tcp[t].ai \notin CachePointers)
    /\ [][\A t \in Threads :
            (HoldsCopy(t) /\ tcp'[t] # tcp[t])
            => LookupView(tcp[t].hostname)' = LookupView(tcp[t].hostname)]_vars

\* A caller has released the record it got from the cache, and the cache
\* still answers for the hostname
C5_Witness ==
    \E t \in Threads :
        /\ tcp[t].hit_dns_cache # 0 /\ tcp[t].pc = "done" /\ tcp[t].ret = 0
        /\ heap[tcp[t].ai].frees = 1
        /\ LookupView(tcp[t].hostname).ret = 1

\* No two entries of the dictionary have the same hostname
SingleEntry ==
    \A i, j \in 1..Len(dns_dictionary) :
        dns_dictionary[i].key = dns_dictionary[j].key => i = j

\* C6: the dictionary never holds two entries for one hostname, and a store
\* leaves the hostname's entry pointing at the record and timestamp of that
\* store, whatever was there before.
C6_SingleEntry ==
    /\ []SingleEntry
    /\ [][\A t \in Threads :
            StoreStep(t)
            => LET p == CachedInfo(dns_dictionary', tcp[t].hostname_bak)
               IN  /\ p = tcp[t].new_dns_cache_info
                   /\ heap'[p].dns_cache_time = tcp[t].cur_time
                   /\ heap'[heap'[p].res].ais[1] = CopyAddrinfo(heap'[p].src)]_vars

\* Two stores for the hostname were made one over the other: two records
\* were built and never released, and the dictionary has the one entry
C6_Witness ==
    /\ Len(dns_dictionary) = 1
    /\ \E p, q \in 1..Len(heap) :
         /\ p < q
         /\ heap[p].kind = "DnsCacheInfo" /\ heap[p].frees = 0
         /\ heap[q].kind = "DnsCacheInfo" /\ heap[q].frees = 0
         /\ \E t \in Threads : tcp[t].pc = "done" /\ tcp[t].new_dns_cache_info = p
         /\ \E t \in Threads : tcp[t].pc = "done" /\ tcp[t].new_dns_cache_info = q

\* ijk_tcp_getaddrinfo_nonblock returns to tcp_open in this step: from the
\* top of the loop (worker finished or deadline) or from the interrupt check
ResolveReturns(t) == Resolving(t) /\ tcp'[t].pc \notin {"nonblock_lock", "nonblock_check", "nonblock_wait"}
ReturnsFromCheck(t) == ResolveReturns(t) /\ tcp[t].pc = "nonblock_check"
ReturnsFromInterrupt(t) == ResolveReturns(t) /\ tcp[t].pc = "nonblock_wait"

\* The interrupt callback turned true while thread t was in the timed wait
\* it is still in
InterruptedInWait(t) ==
    /\ tcp[t].pc = "nonblock_wait"
    /\ rq[t].interrupt
    /\ rq[t].interrupt_time >= rq[t].wait_since

\* C7: when the interrupt callback has become true while the waiter is in its
\* timed wait, the next wakeup, at most one slice after that, ends the wait
\* with AVERROR_EXIT, and tcp_open returns the aborted error AVERROR_EXIT.
C7_AsStated ==
    [][\A t \in Threads :
         (InterruptedInWait(t) /\ tcp'[t] # tcp[t])
         => /\ ResolveReturns(t)
            /\ now <= rq[t].interrupt_time + WaitSlice
            /\ tcp'[t].gai_ret = AVERROR_EXIT
            /\ tcp'[t].pc = "done" /\ tcp'[t].ret = AVERROR_EXIT]_vars

\* C8: a resolver that returns without an address returns the platform error
\* of the lookup when the worker had completed, and AVERROR_EXIT when it
\* stopped on the deadline or on the interrupt, in both worker modes.
C8_AsStated ==
    [][\A t \in Threads :
         LET r == rq[t]
         IN  (ResolveReturns(t) /\ r.res = 0)
             => IF ReturnsFromCheck(t) /\ r.finished # 0
                THEN tcp'[t].gai_ret = r.lookups[Len(r.lookups)].err
                ELSE tcp'[t].gai_ret = AVERROR_EXIT]_vars

\* The lookups of the worker whose outcome has reached the request: all but
\* one whose list the worker still holds in temp_addrinfo
AttachedLookups(r) ==
    IF r.wpc \in {"one_lock", "one_attach"}
    THEN SubSeq(r.lookups, 1, Len(r.lookups) - 1)
    ELSE r.lookups

FamilyFailed(r, family) ==
    \E i \in 1..Len(AttachedLookups(r)) :
        AttachedLookups(r)[i].family = family /\ AttachedLookups(r)[i].err # 0

FamilySucceeded(r, family) ==
    \E i \in 1..Len(AttachedLookups(r)) :
        AttachedLookups(r)[i].family = family /\ AttachedLookups(r)[i].err = 0

\* The candidates getaddrinfo returned for the family, in its order
FamilyResults(r, family) ==
    IF FamilySucceeded(r, family)
    THEN LET i == CHOOSE i \in 1..Len(AttachedLookups(r)) :
                      AttachedLookups(r)[i].family = family
         IN  AttachedLookups(r)[i].list
    ELSE <<>>

\* The two cases of the claim: IPv4 failed and IPv6 succeeded, or both succeeded
PartialFamilyCase(t) ==
    /\ tcp[t].s.addrinfo_one_by_one # 0
    /\ FamilySucceeded(rq[t], "AF_INET6")
    /\ FamilyFailed(rq[t], "AF_INET") \/ FamilySucceeded(rq[t], "AF_INET")

ReturnsFamilies(t) ==
    /\ tcp'[t].gai_ret = 0
    /\ tcp'[t].ai # 0
    /\ heap'[tcp'[t].ai].ais = FamilyResults(rq[t], "AF_INET") \o FamilyResults(rq[t], "AF_INET6")

\* C9 as stated: whenever the resolver returns in one of the two cases, it
\* returns 0 and the IPv4 results followed by the IPv6 results.
C9_AsStated ==
    [][\A t \in Threads : (ResolveReturns(t) /\ PartialFamilyCase(t)) => ReturnsFamilies(t)]_vars

\* C9: in split mode, when the waiter stops because the worker finished or the
\* deadline passed, and by then the IPv4 lookup has failed and the IPv6 list is
\* attached, or both lists are attached, the resolver returns 0 and the IPv4
\* results followed by the IPv6 results, each in resolver order.
C9_PartialFamily ==
    [][\A t \in Threads : (ReturnsFromCheck(t) /\ PartialFamilyCase(t)) => ReturnsFamilies(t)]_vars

\* The resolver has returned the IPv6 list alone after the IPv4 lookup failed
C9_Witness ==
    \E t \in Threads :
        /\ tcp[t].s.addrinfo_one_by_one # 0
        /\ tcp[t].pc = "restart" /\ tcp[t].gai_ret = 0 /\ tcp[t].log = <<>>
        /\ Len(rq[t].lookups) = 2
        /\ rq[t].lookups[1].err # 0 /\ rq[t].lookups[2].err = 0
        /\ heap[tcp[t].ai].ais = rq[t].lookups[2].list

\* C10: the waiter never starts another wait once the clock it read is past
\* start + timeout; at that check it returns, with 0 and the attached list when
\* there is one; and every call of the resolver returns.
C10_AlwaysReturns ==
    /\ [](\A t \in Threads :
            tcp[t].pc = "nonblock_wait"
            => rq[t].now <= rq[t].start + tcp[t].s.addrinfo_timeout)
    /\ [][\A t \in Threads :
            (/\ tcp[t].pc = "nonblock_check" /\ tcp'[t] # tcp[t]
             /\ rq[t].start + tcp[t].s.addrinfo_timeout < rq[t].now)
            => /\ ResolveReturns(t)
               /\ rq[t].res # 0 => tcp'[t].gai_ret = 0 /\ tcp'[t].ai = rq[t].res]_vars
    /\ \A t \in Threads : Resolving(t) ~> ~Resolving(t)

\* The resolver returned on the deadline, the worker still unfinished, with
\* the partial list that was attached
C10_Witness ==
    \E t \in Threads :
        /\ tcp[t].pc = "restart" /\ tcp[t].gai_ret = 0 /\ tcp[t].ai # 0
        /\ rq[t].finished = 0 /\ ~rq[t].interrupt
        /\ rq[t].now > rq[t].start + tcp[t].s.addrinfo_timeout

\* C11: with a resolver timeout <= 0 the lookup is one step of the calling
\* thread whose outcome is what getaddrinfo returned; no request is created,
\* no worker is started and the wait loop, where the interrupt callback is
\* polled, is never entered.
C11_SyncPath ==
    /\ [](\A t \in Threads :
            tcp[t].s.addrinfo_timeout <= 0 => rq[t] = IdleRq /\ ~Resolving(t))
    /\ [][\A t \in Threads :
            (/\ tcp[t].pc = "resolve" /\ tcp[t].s.addrinfo_timeout <= 0
             /\ tcp'[t] # tcp[t])
            => /\ rq' = rq
               /\ tcp'[t].pc \in {"done", "restart"}
               /\ \E r \in getaddrinfo("AF_UNSPEC", tcp[t].port, MaxFamilyCand) :
                    /\ tcp'[t].gai_ret = r.err
                    /\ r.err # 0 => tcp'[t].pc = "done" /\ heap' = heap
                    /\ r.err = 0 => /\ tcp'[t].pc = "restart"
                                    /\ heap'[tcp'[t].ai].ais = r.list]_vars

\* A call with the timeout 0 has got its candidates from the lookup
C11_Witness ==
    \E t \in Threads :
        /\ tcp[t].s.addrinfo_timeout = 0
        /\ tcp[t].pc = "restart" /\ tcp[t].ai # 0 /\ tcp[t].log = <<>>
        /\ rq[t] = IdleRq

\* C12: a lookup with dns_cache_clear set misses whatever the age of the
\* entry and the TTL, and leaves no record for the hostname: a lookup without
\* the flag, with any TTL, misses from then on, and only set_dns_cache brings
\* a record back.
C12_ClearFlag ==
    /\ [][\A t \in Threads :
            (LookupStep(t) /\ tcp[t].s.dns_cache_clear # 0)
            => /\ tcp'[t].hit_dns_cache = 0
               /\ CachedInfo(dns_dictionary', tcp[t].hostname) = 0
               /\ \A ttl \in Ttls : LookupNow(tcp[t].hostname, ttl)'.ret = 0]_vars
    /\ [][\A t \in Threads :
            (/\ CachedInfo(dns_dictionary, tcp[t].hostname) = 0
             /\ CachedInfo(dns_dictionary', tcp[t].hostname) # 0)
            => \E u \in Threads : StoreStep(u)]_vars

\* The second call's lookup, with the clear flag and entries that never
\* expire, has removed the record the first call stored
C12_Witness ==
    \E t \in Threads :
        /\ calls = 2
        /\ tcp[t].pc = "resolve"
        /\ tcp[t].s.dns_cache_clear # 0 /\ tcp[t].s.dns_cache_timeout < 0
        /\ av_dict_get(dns_dictionary, tcp[t].hostname) # 0
        /\ CachedInfo(dns_dictionary, tcp[t].hostname) = 0
        /\ \E p \in 1..Len(heap) : heap[p].kind = "DnsCacheInfo" /\ heap[p].frees = 1

\* The references to the request of thread t that are still to be released:
\* req_ref of the waiter and req->buffer of the worker
HeldRefs(t) ==
    (IF Resolving(t) THEN 1 ELSE 0) + (IF rq[t].wpc # "none" THEN 1 ELSE 0)

\* C13: the request is freed once, in the step that releases the second of
\* the two references, whichever side that is; and no step of the waiter or
\* of the worker reads or writes the request after it was freed.
C13_SharedOwnership ==
    /\ [](\A t \in Threads :
            /\ rq[t].frees <= 1
            /\ rq[t] # IdleRq => /\ rq[t].refs = HeldRefs(t)
                                 /\ rq[t].frees = 1 <=> HeldRefs(t) = 0)
    /\ [][\A t \in Threads :
            (rq'[t] # rq[t] /\ rq'[t] # IdleRq /\ rq[t] # IdleRq)
            => /\ rq[t].frees = 0
               /\ rq'[t].frees = 1 <=> (rq[t].refs = 1 /\ rq'[t].refs = 0)]_vars

\* The caller was cancelled, the lookup succeeded all the same, and after
\* both sides have gone the request is freed
C13_Witness ==
    \E t \in Threads :
        /\ tcp[t].gai_ret = AVERROR_EXIT /\ rq[t].interrupt
        /\ rq[t].lookups # <<>> /\ rq[t].lookups[1].err = 0
        /\ rq[t].wpc = "none" /\ rq[t].finished = 1
        /\ rq[t].refs = 0 /\ rq[t].frees = 1

\* What the step of thread t adds to the log of its call
NewEvents(t) ==
    IF tcp[t].pc \in {"restart", "connect"}
    THEN SubSeq(tcp'[t].log, Len(tcp[t].log) + 1, Len(tcp'[t].log))
    ELSE <<>>

\* In this step the current candidate of thread t fails: ff_socket, ff_listen,
\* ff_listen_bind or ff_listen_connect returns an error
CandidateFails(t) ==
    \E i \in 1..Len(NewEvents(t)) :
        LET x == NewEvents(t)[i]
        IN  \/ x.ev = "socket" /\ x.val < 0
            \/ x.ev = "listen" /\ x.val < 0
            \/ x.ev = "connect" /\ x.val < 0

\* The failure is one the loop retries after: no socket, or a connect error
\* other than AVERROR_EXIT that the did-open hook lets pass
SoftFails(t) ==
    \E i \in 1..Len(NewEvents(t)) :
        LET x == NewEvents(t)[i]
        IN  \/ x.ev = "socket" /\ x.val < 0
            \/ x.ev = "did_open" /\ x.val < 0 /\ x.val # AVERROR_EXIT /\ x.ret = 0

NoSocketOpen(c) == \A f \in 1..Len(c.socks) : ~c.socks[f].open

\* The step closes the candidate's socket and goes to the next candidate
Advances(t) ==
    /\ tcp'[t].pc = "restart"
    /\ tcp'[t].cur_ai = tcp[t].cur_ai + 1
    /\ NoSocketOpen(tcp'[t])

\* The step closes the candidate's socket and leaves the loop with the error
GivesUp(t) ==
    /\ tcp'[t].pc \in {"done", "fail1_lock"}
    /\ tcp'[t].ret < 0
    /\ NoSocketOpen(tcp'[t])

\* C14 as stated: whatever fails on a candidate that is not the last, the
\* call closes its socket and goes to the next candidate.
C14_AsStated ==
    [][\A t \in Threads :
         (CandidateFails(t) /\ tcp[t].cur_ai < tcp[t].n_ai) => Advances(t)]_vars

\* C14: after a failed ff_socket, or a failed connect other than AVERROR_EXIT
\* that the did-open hook lets pass, the call closes the socket and goes to
\* the next candidate, and gives up with the error only on the last one; a
\* failed ff_listen or ff_listen_bind, a connect ended by AVERROR_EXIT and a
\* failed connect the hook refuses make it give up at once with the error,
\* the socket closed, whatever candidates remain.
C14_Recovery ==
    [][\A t \in Threads :
         CandidateFails(t)
         => IF SoftFails(t) /\ tcp[t].cur_ai < tcp[t].n_ai
            THEN Advances(t)
            ELSE GivesUp(t)]_vars

\* A listening call on three candidates went past the first, which had no
\* socket, and gave up on the second, which could not be bound
C14_Witness ==
    \E t \in Threads :
        /\ tcp[t].s.listen = 2 /\ tcp[t].pc = "done" /\ tcp[t].n_ai = 3
        /\ tcp[t].ret = AVERROR_EADDRINUSE
        /\ tcp[t].log[1] = Event("socket", 1, -1, 0)
        /\ \E i \in 1..Len(tcp[t].log) : tcp[t].log[i] = Event("listen", 2, AVERROR_EADDRINUSE, 0)

\* In this step the connect of the current candidate succeeds and the
\* did-open hook refuses the connection
VetoAfterConnect(t) ==
    /\ \E i \in 1..Len(NewEvents(t)) : NewEvents(t)[i] = Event("connect", tcp[t].cur_ai, 0, 0)
    /\ \E i \in 1..Len(NewEvents(t)) :
         LET x == NewEvents(t)[i]
         IN  x.ev = "did_open" /\ x.cand = tcp[t].cur_ai /\ x.val = 0 /\ x.ret # 0

\* C15 as stated: a refusal of the did-open hook after a successful connect
\* closes the socket and, while candidates remain, leads to the next
\* candidate; the call fails only on the last one.
C15_AsStated ==
    [][\A t \in Threads :
         VetoAfterConnect(t)
         => IF tcp[t].cur_ai < tcp[t].n_ai THEN Advances(t) ELSE GivesUp(t)]_vars

\* C15: a refusal of the did-open hook after a successful connect closes the
\* socket and ends the call at once with the value the hook returned, whether
\* or not candidates remain; no later candidate is tried.
C15_VetoEndsCall ==
    [][\A t \in Threads :
         VetoAfterConnect(t)
         => /\ GivesUp(t)
            /\ tcp'[t].ret \in HookResults \ {0}
            /\ tcp'[t].cur_ai = tcp[t].cur_ai]_vars

\* The hook refused the first of several candidates after its connect
\* succeeded, and the call is over without a socket for the second
C15_Witness ==
    \E t \in Threads :
        /\ tcp[t].pc = "done" /\ tcp[t].n_ai >= 2 /\ tcp[t].ret = -1
        /\ \E i \in 1..Len(tcp[t].log) : tcp[t].log[i] = Event("did_open", 1, 0, -1)
        /\ EventOf(tcp[t].log, "socket", 2) = <<>>

\* The place in log of the one event ev of candidate k
Pos(log, ev, k) == CHOOSE i \in 1..Len(log) : log[i].ev = ev /\ log[i].cand = k

\* The hook calls of a connect-mode call for candidate k, for which a socket
\* was created: one will-open call after the socket; when it refuses, no
\* connect, no later candidate and a failed call; when it agrees, one connect
\* after it and one did-open call after that, with the result of the connect
HooksOf(c, k) ==
    LET will == EventOf(c.log, "will_open", k)
        conn == EventOf(c.log, "connect", k)
        did == EventOf(c.log, "did_open", k)
    IN  /\ Len(will) = 1
        /\ Pos(c.log, "socket", k) < Pos(c.log, "will_open", k)
        /\ IF will[1].ret # 0
           THEN /\ conn = <<>> /\ did = <<>>
                /\ \A i \in 1..Len(c.log) : c.log[i].cand <= k
                /\ c.pc \in {"done", "fail1_lock", "fail1"}
                /\ c.ret # 0
           ELSE \/ c.pc = "connect" /\ c.cur_ai = k /\ conn = <<>> /\ did = <<>>
                \/ /\ Len(conn) = 1 /\ Len(did) = 1
                   /\ Pos(c.log, "will_open", k) < Pos(c.log, "connect", k)
                   /\ Pos(c.log, "connect", k) < Pos(c.log, "did_open", k)
                   /\ did[1].val = conn[1].val

HookProtocol(c) ==
    IF c.s.listen # 0
    THEN Events(c.log, "will_open") = <<>> /\ Events(c.log, "did_open") = <<>>
    ELSE \A k \in 1..c.n_ai :
           IF \E i \in 1..Len(c.log) : c.log[i].ev = "socket" /\ c.log[i].cand = k /\ c.log[i].val >= 0
           THEN HooksOf(c, k)
           ELSE /\ EventOf(c.log, "will_open", k) = <<>>
                /\ EventOf(c.log, "connect", k) = <<>>
                /\ EventOf(c.log, "did_open", k) = <<>>

\* C16: in connect mode every candidate that got a socket has one will-open
\* call before its connect and one did-open call after it, with the result of
\* that connect; a refusing will-open call means no connect, no further
\* candidate and a failed call; in the listen modes no hook is called.
C16_HookProtocol == \A t \in Threads : HookProtocol(tcp[t])

\* The first candidate's connect was refused by the peer and reported to the
\* did-open hook; the will-open hook then refused the second candidate
C16_Witness ==
    \E t \in Threads :
        /\ tcp[t].pc = "done" /\ tcp[t].n_ai = 3 /\ tcp[t].ret # 0
        /\ \E i \in 1..Len(tcp[t].log) :
             tcp[t].log[i] = Event("did_open", 1, AVERROR_ECONNREFUSED, 0)
        /\ \E i \in 1..Len(tcp[t].log) : tcp[t].log[i] = Event("will_open", 2, 0, -1)

\* tcp_open returns 0 in this step of thread t
ReturnsSuccess(t) ==
    /\ tcp[t].pc \notin {"idle", "done"}
    /\ tcp'[t].pc = "done" /\ tcp'[t].ret = 0

\* The timestamp and the record the dictionary holds for hostname
CacheEntry(hostname) ==
    LET p == CachedInfo(dns_dictionary, hostname)
    IN  IF p = 0 THEN <<>> ELSE <<heap[p].dns_cache_time, heap[heap[p].res].ais>>

\* C17: a call that returns 0 in connect mode with the cache on, after a
\* lookup that missed, for a hostname that is not empty and is not the peer
\* address string, leaves for the hostname an entry whose record equals the
\* candidate that connected and whose timestamp is the clock set_dns_cache
\* read; a call that had a cache hit or ran in a listen mode never stores and
\* leaves the entry and its timestamp as they were.
C17_AsStated ==
    /\ [][\A t \in Threads :
            LET c == tcp[t]
                p == CachedInfo(dns_dictionary', c.hostname)
            IN  (/\ ReturnsSuccess(t)
                 /\ c.s.listen = 0 /\ c.s.dns_cache # 0 /\ c.hit_dns_cache = 0
                 /\ c.hostname # "" /\ tcp'[t].control_ip # c.hostname)
                => /\ p # 0
                   /\ heap'[p].dns_cache_time = c.cur_time
                   /\ SameRecord(CurAi(c, heap), heap'[heap'[p].res].ais[1])]_vars
    /\ [][\A t \in Threads :
            (/\ tcp[t].pc \in {"restart", "connect"} /\ tcp'[t] # tcp[t]
             /\ tcp[t].hit_dns_cache # 0 \/ tcp[t].s.listen # 0)
            => /\ tcp'[t].pc # "set_dns_cache_lock"
               /\ dns_dictionary' = dns_dictionary
               /\ CacheEntry(tcp[t].hostname)' = CacheEntry(tcp[t].hostname)]_vars

\* Thread t is between pthread_mutex_lock and pthread_mutex_unlock of
\* dns_dictionary_mutex
InCritical(t) == tcp[t].pc \in {"get_dns_cache", "set_dns_cache", "fail1"}

WaitsForCache(t) == tcp[t].pc \in {"get_dns_cache_lock", "set_dns_cache_lock", "fail1_lock"}

\* Every record the dictionary points to, and its addrinfo, is allocated
CacheRecordsLive ==
    \A i \in 1..Len(dns_dictionary) :
        LET p == strtoll(dns_dictionary[i].value)
        IN  p # 0 => Live(heap, p) /\ Live(heap, heap[p].res)

\* C18: the dictionary is read and written only by the one thread that holds
\* dns_dictionary_mutex; every non-null pointer in it refers to a record that
\* has not been freed, so a lookup copies from allocated memory; and no
\* object is freed twice.
C18_CacheAtomicity ==
    /\ [](\A t, u \in Threads : InCritical(t) /\ InCritical(u) => t = u)
    /\ [](\A t \in Threads : InCritical(t) <=> dns_dictionary_mutex = t)
    /\ []CacheRecordsLive
    /\ [](\A p \in 1..Len(heap) : heap[p].frees <= 1)
    /\ [][dns_dictionary' # dns_dictionary
          => \E t \in Threads : InCritical(t) /\ tcp'[t] # tcp[t]]_vars
    /\ [][\A t \in Threads : (LookupStep(t) \/ StoreStep(t)) => dns_dictionary_mutex = t]_vars

\* Two callers hit the same record and both fail: the second one enters the
\* invalidation of the failure path after the first has freed the record
C18_Witness ==
    \E t \in Threads :
        /\ tcp[t].pc = "fail1" /\ tcp[t].hit_dns_cache # 0
        /\ dns_dictionary_mutex = t
        /\ av_dict_get(dns_dictionary, tcp[t].hostname) # 0
        /\ CachedInfo(dns_dictionary, tcp[t].hostname) = 0
        /\ \E p \in 1..Len(heap) : heap[p].kind = "DnsCacheInfo" /\ heap[p].frees = 1

\* A step of the worker thread of the request of thread t
WorkerStep(t) ==
    /\ rq[t].wpc # "none" /\ tcp'[t] = tcp[t]
    /\ rq'[t].wpc # rq[t].wpc \/ rq'[t].i # rq[t].i

\* The step writes a request field that the waiter reads on lines 301-307
WritesShared(t) ==
    \/ rq'[t].res # rq[t].res
    \/ rq'[t].last_error # rq[t].last_error
    \/ rq'[t].finished # rq[t].finished

\* C19: every write of the worker to res, last_error or finished of the
\* request is made while the worker holds the request mutex, so none happens
\* while the waiter holds it.
C19_AsStated ==
    [][\A t \in Threads :
          (WorkerStep(t) /\ WritesShared(t)) => rq[t].mutex = "worker"]_vars

\* The resolver has returned a list to tcp_open, which owns it from then on
Handed(t) == tcp[t].ai # 0 /\ tcp[t].pc \notin {"resolve"} /\ ~Resolving(t)

\* The call has returned, the worker has ended and the request is gone
Quiescent(t) == tcp[t].pc = "done" /\ rq[t].wpc = "none" /\ rq[t].refs = 0

\* The list of object p has been released: its own head, or the head it was
\* linked behind
Released(hp, p) ==
    IF hp[p].kind = "tail" THEN hp[hp[p].src].frees = 1 ELSE hp[p].frees = 1

AddrLists(hp) == {p \in 1..Len(hp) : hp[p].kind \in {"list", "tail"}}

\* C20: once the resolver has handed a list to its caller, no step of the
\* worker changes or frees that list and the request no longer refers to it;
\* a list the worker produces is put in req->res or linked behind it, and
\* req->res is freed when the request is; no list is released twice, and when
\* the call has returned and the request is gone every list has been released.
C20_OwnershipTransfer ==
    /\ [](\A t \in Threads :
            Handed(t) => /\ rq[t].res # tcp[t].ai
                         /\ rq[t].wpc \in {"one_lock", "one_attach"}
                               => rq[t].temp_addrinfo # tcp[t].ai)
    /\ [][\A t \in Threads :
            (Handed(t) /\ WorkerStep(t)) => heap'[tcp[t].ai] = heap[tcp[t].ai]]_vars
    /\ [][\A t \in Threads :
            (WorkerStep(t) /\ rq[t].wpc = "one_attach")
            => LET p == rq[t].temp_addrinfo
               IN  \/ rq'[t].res = p /\ heap'[p] = heap[p]
                   \/ /\ rq'[t].res = rq[t].res /\ rq[t].res # 0
                      /\ heap'[p].kind = "tail" /\ heap'[p].src = rq[t].res]_vars
    /\ [][\A t \in Threads :
            (WorkerStep(t) /\ rq[t].wpc = "lookup" /\ Len(heap') > Len(heap))
            => rq'[t].res = Len(heap')]_vars
    /\ [][\A t \in Threads :
            (rq'[t].frees > rq[t].frees /\ rq[t].res # 0 /\ Resolving(t)' = Resolving(t))
            => heap'[rq[t].res].frees = 1]_vars
    /\ [](\A p \in AddrLists(heap) : heap[p].frees <= 1)
    /\ [](\A t \in Threads :
            Quiescent(t) => \A p \in AddrLists(heap) : Released(heap, p))

\* The caller got the list of the first family at the deadline, the worker
\* attached the list of the second family to the request afterwards, and
\* both have been released
C20_Witness ==
    \E t \in Threads :
        /\ Quiescent(t) /\ tcp[t].ai # 0
        /\ Len(rq[t].lookups) = 2
        /\ \A k \in 1..2 : rq[t].lookups[k].err = 0
        /\ \E p \in AddrLists(heap) :
              p # tcp[t].ai /\ heap[p].kind = "list" /\ heap[p].frees = 1

\* The request of thread t has been created and not freed
RequestAllocated(t) == rq[t].refs > 0

\* C21: a request created by a resolver call with a positive timeout is
\* eventually freed, also when av_buffer_ref or pthread_create fails, given
\* that a spawned worker runs to its end.
C21_AsStated ==
    \A t \in Threads : RequestAllocated(t) ~> (rq[t].refs = 0 /\ rq[t].frees = 1)

\* The step of thread t is the entry of ijk_tcp_getaddrinfo_nonblock with a
\* positive timeout
StartsWorkerResolve(t) ==
    tcp[t].pc = "resolve" /\ UsesWorker(tcp[t].s) /\ tcp'[t].pc # "resolve"

\* C23: with an empty hostname, a service and a positive timeout, and no
\* allocation failing, the resolver creates the request, starts the worker
\* and waits for it; it does not return an out-of-memory error.
C23_AsStated ==
    [][\A t \in Threads :
          (StartsWorkerResolve(t) /\ tcp[t].hostname = "")
          => /\ tcp'[t].pc = "nonblock_lock"
             /\ rq'[t].refs = 2 /\ rq'[t].wpc # "none"
             /\ tcp'[t].gai_ret # AVERROR_ENOMEM]_vars

\* The sockets the call has created (ff_socket, or accept in ff_listen_bind)
\* and not closed
OpenSocks(c) == {f \in 1..Len(c.socks) : c.socks[f].open}

StoreInFlight(p) ==
    \E t \in Threads :
        tcp[t].pc \in {"set_dns_cache_lock", "set_dns_cache"} /\ tcp[t].new_dns_cache_info = p

\* C24: every DnsCacheInfo that set_dns_cache has stored is the record the
\* dictionary refers to or has been freed; a store over a live entry frees
\* the record it replaces.
C24_AsStated ==
    \A p \in 1..Len(heap) :
        (heap[p].kind = "DnsCacheInfo" /\ ~StoreInFlight(p))
        => \/ heap[p].frees = 1
           \/ \E i \in 1..Len(dns_dictionary) : strtoll(dns_dictionary[i].value) = p

====
